---- MODULE Spec2Model ----
(***************************************************************************)
(* Model of the RPA analytics pipeline: the retrying HTTP client           *)
(* (src/src/api/client.py), the record processor                           *)
(* (src/src/processors/data_processor.py), the helpers                     *)
(* (src/src/utils/helpers.py), the cache (src/src/utils/cache.py), and the *)
(* run itself (src/main.py) with its reports and notification.             *)
(***************************************************************************)
EXTENDS Integers, Sequences, FiniteSets, TLC

(***************************************************************************)
(* Bounds of the model.                                                    *)
(***************************************************************************)
MaxRetriesBound == 3   \* settings.API_MAX_RETRIES ranges over 0..MaxRetriesBound
MaxPagesBound == 3     \* APIClient.max_pages ranges over 1..MaxPagesBound
PageSizeBound == 2     \* APIClient.page_size ranges over 1..PageSizeBound
MaxUsersData == 2      \* longest users_data list handed to process_users
MaxPostsData == 2      \* longest posts_data list handed to process_posts
MaxPosts == 2          \* longest list of Post objects handed to calculate_metrics
MaxCalls == 2          \* most calculate_metrics calls on one user
MaxHelperUsers == 3    \* longest user list handed to a helper
MaxCacheOps == 3       \* most RedisCache operations in one behaviour
MaxMinPosts == 4       \* min_posts of filter_active_users ranges over -1..MaxMinPosts
MaxNegRetries == 1     \* API_MAX_RETRIES misconfigured: down to -MaxNegRetries

VARIABLES
    \* ---- APIClient (src/src/api/client.py) ----
    max_retries,   \* self.max_retries
    max_pages,     \* self.max_pages
    page_size,     \* self.page_size
    caller,        \* which public method the program called: "get" | "get_paginated"
    pc,            \* position of the client: "start" | "pag_loop" | "get_loop" | "done"
    page,          \* get_paginated: local `page`
    attempt,       \* get: loop variable `attempt`
    results,       \* get_paginated: local `results`
    outcome,       \* how the call ended: "running" | "returned" | "APIError" | "OSError"
    retval,        \* the value the call returned
    hist,          \* every HTTP request issued so far, with what the transport answered
    sleeps,        \* every time.sleep call of get, in order
    metrics,       \* lines appended to api_performance.log
    \* ---- DataProcessor (src/src/processors/data_processor.py) ----
    users_data,    \* process_users: argument
    idx,           \* process_users: position of the for loop (next record to look at)
    validated_users, \* process_users: local `validated_users`
    ppc,           \* position of the processor: "loop" | "returned" | "raised"
    origin,        \* origin[j]: index in users_data of the record behind validated_users[j]
    posts_data,    \* process_posts: argument
    pidx,          \* process_posts: position of the for loop
    processed_posts, \* process_posts: local `processed_posts`
    qpc,           \* position of process_posts: "loop" | "returned" | "raised"
    porigin,       \* porigin[j]: index in posts_data of the record behind processed_posts[j]
    \* ---- calculate_metrics, helpers, UserAnalytics.run_analysis ----
    users,         \* self.users: the User objects (mutated in place by calculate_metrics)
    posts,         \* the Post objects handed to calculate_metrics
    calls,         \* for each calculate_metrics call so far: the user index and how it ended
    first,         \* the user as the first calculate_metrics call left it
    stage,         \* position of run_analysis / of the helper under study
    uidx,          \* run_analysis: position of `for user in self.users`
    sorted_users,  \* result of sort_users_by_post_count
    run_error,     \* exception that ended the operation, "none" when there is none
    warned,        \* validate_users logged its zero-count warning
    arg,           \* the list a helper was called with, as it was at the call
    \* ---- main (src/main.py), reports and the notification ----
    trail,         \* the stages of the run entered so far, in order
    artifacts,     \* the report files written so far
    emails,        \* result of every send_report_email call so far
    email_enabled, \* settings.EMAIL_ENABLED
    error_id,      \* the user id named in the ProcessingError message, 0 when none
    \* ---- RedisCache (src/src/utils/cache.py) ----
    store,         \* what the Redis backend holds under each key
    store_before,  \* the backend's contents when the last operation was called
    cache_last,    \* the last cache operation and how it ended
    cache_ops,     \* number of cache operations so far
    \* ---- filter_active_users (src/src/utils/helpers.py) ----
    min_posts,     \* argument min_posts
    active_users   \* the list filter_active_users returned

clientVars == <<max_retries, max_pages, page_size, caller, pc, page, attempt,
                results, outcome, retval, hist, sleeps, metrics>>
procVars == <<users_data, idx, validated_users, ppc, origin>>
postVars == <<posts_data, pidx, processed_posts, qpc, porigin>>
aggVars == <<users, posts, calls, first>>
runVars == <<stage, uidx, sorted_users, run_error, warned, arg>>
mainVars == <<trail, artifacts, emails, email_enabled, error_id>>
cacheVars == <<store, store_before, cache_last, cache_ops>>
filterVars == <<min_posts, active_users>>
vars == <<clientVars, procVars, postVars, aggVars, runVars,
          mainVars, cacheVars, filterVars>>

(***************************************************************************)
(* JSON values a call can return.  None is what Python yields when get's   *)
(* for loop falls through without returning.                               *)
(***************************************************************************)
PyNone == [kind |-> "none", body |-> <<>>]
Json(body) == [kind |-> "json", body |-> body]

\* Python truthiness of a response: None and the empty list are falsy.
Truthy(resp) == resp.kind = "json" /\ Len(resp.body) > 0

\* The body the remote resource serves for request number r with n records:
\* n records, each distinct from every other record served in the run.
Body(r, n) == [i \in 1..n |-> <<r, i>>]

\* time.sleep(2 ** attempt)
BackoffLinear(a) == 2 * a
Backoff(a) == 2 ^ a

\* `if attempt == self.max_retries - 1`
IsLastAttemptOffByOne(a) == a = max_retries
IsLastAttempt(a) == a = max_retries - 1

\* `while page <= self.max_pages`
PageWithinLimitOffByOne == page <= max_pages + 1
PageWithinLimit == page <= max_pages

\* `if len(response) < self.page_size`
IsShortPage(body) == Len(body) < page_size

Request(p) == [page |-> p, limit |-> IF p = 0 THEN 0 ELSE page_size]

HistEntry(kind, body) ==
    [page |-> page, attempt |-> attempt, kind |-> kind, body |-> body,
     req |-> Request(page)]

\* The call ends: it returns `val` or raises `exc`.
Finish(how, val) ==
    /\ pc' = "done"
    /\ outcome' = how
    /\ retval' = val

ProcIdle ==
    /\ users_data = <<>> /\ idx = 1 /\ validated_users = <<>>
    /\ ppc = "returned" /\ origin = <<>>

PostIdle ==
    /\ posts_data = <<>> /\ pidx = 1 /\ processed_posts = <<>>
    /\ qpc = "returned" /\ porigin = <<>>

AggIdle ==
    /\ users = <<>> /\ posts = <<>> /\ calls = <<>> /\ first = <<>>

RunIdle ==
    /\ stage = "idle" /\ uidx = 1 /\ sorted_users = <<>>
    /\ run_error = "none" /\ warned = FALSE /\ arg = <<>>

MainIdle ==
    /\ trail = <<>> /\ artifacts = <<>> /\ emails = <<>>
    /\ email_enabled = FALSE /\ error_id = 0

\* Keys and the "nothing stored" entry of the cache backend.
CacheKeys == {"k1", "k2"}
Absent == [present |-> FALSE, raw |-> <<>>]
NoCacheOp ==
    [op |-> "none", key |-> "k1", how |-> "none",
     val |-> [t |-> "null", n |-> 0, s |-> <<>>], ok |-> FALSE]

CacheIdle ==
    /\ store = [k \in CacheKeys |-> Absent]
    /\ store_before = store
    /\ cache_last = NoCacheOp
    /\ cache_ops = 0

FilterIdle == min_posts = 1 /\ active_users = <<>>

\* Everything outside the component under study is at rest.
RestIdle == MainIdle /\ CacheIdle /\ FilterIdle

ClientInit ==
    /\ max_retries \in 0..MaxRetriesBound
    /\ max_pages \in 1..MaxPagesBound
    /\ page_size \in 1..PageSizeBound
    /\ caller \in {"get", "get_paginated"}
    /\ pc = "start"
    /\ page = 0
    /\ attempt = 0
    /\ results = <<>>
    /\ outcome = "running"
    /\ retval = PyNone
    /\ hist = <<>>
    /\ sleeps = <<>>
    /\ metrics = <<>>

ClientIdle ==
    /\ max_retries = 0 /\ max_pages = 1 /\ page_size = 1 /\ caller = "get"
    /\ pc = "done" /\ page = 0 /\ attempt = 0 /\ results = <<>>
    /\ outcome = "returned" /\ retval = PyNone
    /\ hist = <<>> /\ sleeps = <<>> /\ metrics = <<>>

(***************************************************************************)
(* APIClient.get, called directly by the program (params = None).          *)
(***************************************************************************)
get_start ==
    /\ pc = "start" /\ caller = "get"
    /\ pc' = "get_loop"
    /\ attempt' = 0
    /\ UNCHANGED <<max_retries, max_pages, page_size, caller, page, results,
                   outcome, retval, hist, sleeps, metrics, procVars, postVars, aggVars, runVars,
                   mainVars, cacheVars, filterVars>>

(***************************************************************************)
(* APIClient.get_paginated: entry, and the head of its while loop.         *)
(***************************************************************************)
get_paginated_start ==
    /\ pc = "start" /\ caller = "get_paginated"
    /\ results' = <<>>
    /\ page' = 1
    /\ pc' = "pag_loop"
    /\ UNCHANGED <<max_retries, max_pages, page_size, caller, attempt,
                   outcome, retval, hist, sleeps, metrics, procVars, postVars, aggVars, runVars,
                   mainVars, cacheVars, filterVars>>

\* `while page <= self.max_pages:` ... `response = self.get(endpoint, params)`
\* (get entered with the attempt count of the page before is the mutant of the
\* request-sequence property).
pag_loop_keeps_attempt ==
    /\ pc = "pag_loop"
    /\ IF PageWithinLimit
         THEN /\ pc' = "get_loop"
              /\ UNCHANGED <<outcome, retval>>
         ELSE Finish("returned", Json(results))
    /\ UNCHANGED <<max_retries, max_pages, page_size, caller, page, results,
                   attempt, hist, sleeps, metrics, procVars, postVars, aggVars,
                   runVars, mainVars, cacheVars, filterVars>>
pag_loop ==
    /\ pc = "pag_loop"
    /\ IF PageWithinLimit
         THEN /\ pc' = "get_loop"
              /\ attempt' = 0
              /\ UNCHANGED <<outcome, retval>>
         ELSE /\ Finish("returned", Json(results))
              /\ UNCHANGED attempt
    /\ UNCHANGED <<max_retries, max_pages, page_size, caller, page, results,
                   hist, sleeps, metrics, procVars, postVars, aggVars, runVars,
                   mainVars, cacheVars, filterVars>>

(***************************************************************************)
(* What get_paginated does with the value get returned (lines 207-216).    *)
(***************************************************************************)
pag_on_response(resp) ==
    IF ~Truthy(resp)
      THEN /\ Finish("returned", Json(results))
           /\ UNCHANGED <<results, page>>
      ELSE /\ results' = results \o resp.body
           /\ IF IsShortPage(resp.body)
                THEN /\ Finish("returned", Json(results'))
                     /\ UNCHANGED page
                ELSE /\ page' = page + 1
                     /\ pc' = "pag_loop"
                     /\ UNCHANGED <<outcome, retval>>

\* `except APIError` of get_paginated (lines 218-220): break, return results.
pag_on_APIError_propagate ==
    /\ Finish("APIError", PyNone)
    /\ UNCHANGED <<results, page>>
pag_on_APIError ==
    /\ Finish("returned", Json(results))
    /\ UNCHANGED <<results, page>>

\* get returns `resp` to whoever called it.
get_returns(resp) ==
    IF caller = "get"
      THEN /\ Finish("returned", resp)
           /\ UNCHANGED <<results, page>>
      ELSE pag_on_response(resp)

\* get raises APIError to whoever called it.
get_raises_APIError ==
    IF caller = "get"
      THEN /\ Finish("APIError", PyNone)
           /\ UNCHANGED <<results, page>>
      ELSE pag_on_APIError

(***************************************************************************)
(* One iteration of get's for loop, by what the transport and the log file *)
(* do.                                                                     *)
(***************************************************************************)
\* session.get or raise_for_status raises RequestException (lines 63-68).
get_attempt_fail ==
    /\ pc = "get_loop" /\ attempt < max_retries
    /\ hist' = Append(hist, HistEntry("fail", <<>>))
    /\ IF IsLastAttempt(attempt)
         THEN /\ get_raises_APIError
              /\ UNCHANGED <<attempt, sleeps>>
         ELSE /\ sleeps' = Append(sleeps, [after |-> Len(hist'), secs |-> Backoff(attempt)])
              /\ attempt' = attempt + 1
              /\ UNCHANGED <<pc, outcome, retval, results, page>>
    /\ UNCHANGED <<max_retries, max_pages, page_size, caller, metrics, procVars, postVars, aggVars, runVars,
                   mainVars, cacheVars, filterVars>>

\* 2xx response, the metric line is written, the body is returned (lines 50-61).
get_attempt_ok ==
    /\ pc = "get_loop" /\ attempt < max_retries
    /\ \E n \in 0..(page_size + 1) :
         LET body == Body(Len(hist) + 1, n) IN
         /\ hist' = Append(hist, HistEntry("ok", body))
         /\ metrics' = Append(metrics, Len(hist'))
         /\ get_returns(Json(body))
    /\ UNCHANGED <<max_retries, max_pages, page_size, caller, attempt, sleeps, procVars, postVars, aggVars, runVars,
                   mainVars, cacheVars, filterVars>>

\* 2xx response, but open()/write() of api_performance.log raises OSError
\* (lines 59, 161-162): not a RequestException, so it leaves get and, not being
\* an APIError, get_paginated as well.
get_attempt_logfail ==
    /\ pc = "get_loop" /\ attempt < max_retries
    /\ \E n \in 0..(page_size + 1) :
         hist' = Append(hist, HistEntry("logfail", Body(Len(hist) + 1, n)))
    /\ Finish("OSError", PyNone)
    /\ UNCHANGED <<max_retries, max_pages, page_size, caller, attempt, sleeps,
                   metrics, results, page, procVars, postVars, aggVars, runVars,
                   mainVars, cacheVars, filterVars>>

\* range(self.max_retries) is exhausted without a return or a raise: only when
\* max_retries <= 0; the function falls off its end and returns None.
\* (Raising APIError there is the mutant of the zero-retries property.)
get_fallthrough_raises ==
    /\ pc = "get_loop" /\ attempt >= max_retries
    /\ get_raises_APIError
    /\ UNCHANGED <<max_retries, max_pages, page_size, caller, attempt, hist,
                   sleeps, metrics, procVars, postVars, aggVars, runVars,
                   mainVars, cacheVars, filterVars>>
get_fallthrough ==
    /\ pc = "get_loop" /\ attempt >= max_retries
    /\ get_returns(PyNone)
    /\ UNCHANGED <<max_retries, max_pages, page_size, caller, attempt, hist,
                   sleeps, metrics, procVars, postVars, aggVars, runVars,
                   mainVars, cacheVars, filterVars>>

Next ==
    \/ get_start
    \/ get_paginated_start
    \/ pag_loop
    \/ get_attempt_fail
    \/ get_attempt_ok
    \/ get_attempt_logfail
    \/ get_fallthrough
Init == ClientInit /\ ProcIdle /\ PostIdle /\ AggIdle /\ RunIdle /\ RestIdle

Spec == Init /\ [][Next]_vars

\* The client with API_MAX_RETRIES taken from the environment as it is
\* (config.py lines 21-24 declare an int and no lower limit): zero and negative
\* values included.
InitAnyRetries ==
    /\ max_retries \in (-MaxNegRetries)..MaxRetriesBound
    /\ max_pages \in 1..MaxPagesBound
    /\ page_size \in 1..PageSizeBound
    /\ caller \in {"get", "get_paginated"}
    /\ pc = "start" /\ page = 0 /\ attempt = 0 /\ results = <<>>
    /\ outcome = "running" /\ retval = PyNone
    /\ hist = <<>> /\ sleeps = <<>> /\ metrics = <<>>
    /\ ProcIdle /\ PostIdle /\ AggIdle /\ RunIdle /\ RestIdle

SpecAnyRetries == InitAnyRetries /\ [][Next]_vars

\* get and get_paginated are straight-line synchronous code: a step that can be
\* taken is taken.
FairSpec == Spec /\ WF_vars(Next)

(***************************************************************************)
(* Raw JSON values of a record's fields, as Python sees them after         *)
(* response.json(): an int, a str (its characters, in order) or None.      *)
(***************************************************************************)
PyInt(n) == [t |-> "int", n |-> n, s |-> <<>>]
PyStr(s) == [t |-> "str", n |-> 0, s |-> s]
PyNull == [t |-> "null", n |-> 0, s |-> <<>>]

\* Strings pydantic's lax mode parses as an int, with the int each one gives.
IntLiterals == {<<"2">>}
StrToInt(s) == CASE s = <<"2">> -> 2

UserKeys == {"id", "name", "username", "email"}
RawValues(k) ==
    CASE k = "id" -> {PyInt(1), PyStr(<<"2">>), PyStr(<<"x">>)}
      [] k = "name" -> {PyStr(<<"A">>), PyNull}
      [] k = "username" -> {PyStr(<<"u">>)}
      [] k = "email" -> {PyStr(<<"e", "@", "x">>)}
AllRawValues == UNION {RawValues(k) : k \in UserKeys}

\* The dicts a users page can hold: any subset of the keys, each with one of
\* its raw values.
UserRecords ==
    UNION {{d \in [S -> AllRawValues] : \A k \in S : d[k] \in RawValues(k)} :
             S \in SUBSET UserKeys}

SeqsUpTo(S, n) == UNION {[1..m -> S] : m \in 0..n}

(***************************************************************************)
(* models/user.py: the User constructor applied to a raw record.  pydantic *)
(* validates each declared field: id: int, name/username/email: str, all   *)
(* four required (none has a default).                                     *)
(***************************************************************************)
IntFieldOk(v) == v.t = "int" \/ (v.t = "str" /\ v.s \in IntLiterals)
IntFieldValue(v) == IF v.t = "int" THEN v.n ELSE StrToInt(v.s)
StrFieldOk(v) == v.t = "str"

UserModelValid(d) ==
    /\ "id" \in DOMAIN d /\ IntFieldOk(d["id"])
    /\ \A k \in {"name", "username", "email"} : k \in DOMAIN d /\ StrFieldOk(d[k])

\* A Python float that is the quotient of two ints, kept as the fraction in
\* lowest terms (so that equal quotients are equal values).
RECURSIVE Gcd(_, _)
Gcd(a, b) == IF b = 0 THEN a ELSE Gcd(b, a % b)
PyFloat(num, den) ==
    IF num = 0 THEN [num |-> 0, den |-> 1]
    ELSE [num |-> num \div Gcd(num, den), den |-> den \div Gcd(num, den)]

\* The User a valid record yields; posts, post_count and avg_chars take their
\* defaults.
UserModel(d) ==
    [id |-> IntFieldValue(d["id"]),
     name |-> d["name"].s,
     username |-> d["username"].s,
     email |-> d["email"].s,
     posts |-> <<>>, post_count |-> 0, avg_chars |-> PyFloat(0, 1)]

\* `all(key in user for key in ['id', 'name'])`
HasRequiredKeys(d) == \A key \in {"id", "name"} : key \in DOMAIN d

UsersInit ==
    /\ users_data \in SeqsUpTo(UserRecords, MaxUsersData)
    /\ idx = 1
    /\ validated_users = <<>>
    /\ ppc = "loop"
    /\ origin = <<>>

(***************************************************************************)
(* DataProcessor.process_users: one action per way an iteration of the for *)
(* loop can go, and the return.                                            *)
(***************************************************************************)
\* lines 38-43: a required key is missing: warning, continue.
users_skip_incomplete ==
    /\ ppc = "loop" /\ idx <= Len(users_data)
    /\ ~HasRequiredKeys(users_data[idx])
    /\ idx' = idx + 1
    /\ UNCHANGED <<users_data, validated_users, ppc, origin, clientVars, postVars, aggVars, runVars,
                   mainVars, cacheVars, filterVars>>

\* lines 45-49: the User constructor validates; the user is appended.
users_append ==
    /\ ppc = "loop" /\ idx <= Len(users_data)
    /\ HasRequiredKeys(users_data[idx])
    /\ UserModelValid(users_data[idx])
    /\ validated_users' = Append(validated_users, UserModel(users_data[idx]))
    /\ origin' = Append(origin, idx)
    /\ idx' = idx + 1
    /\ UNCHANGED <<users_data, ppc, clientVars, postVars, aggVars, runVars,
                   mainVars, cacheVars, filterVars>>

\* lines 51-56: `except ValidationError`: the error is logged, the loop goes on.
on_ValidationError_propagate ==
    /\ ppc' = "raised"
    /\ UNCHANGED idx
on_ValidationError ==
    /\ idx' = idx + 1
    /\ UNCHANGED ppc

\* lines 45-56: the User constructor raises ValidationError.
users_skip_invalid ==
    /\ ppc = "loop" /\ idx <= Len(users_data)
    /\ HasRequiredKeys(users_data[idx])
    /\ ~UserModelValid(users_data[idx])
    /\ on_ValidationError
    /\ UNCHANGED <<users_data, validated_users, origin, clientVars, postVars, aggVars, runVars,
                   mainVars, cacheVars, filterVars>>

\* lines 58-59: the loop is over: return validated_users.
users_return ==
    /\ ppc = "loop" /\ idx > Len(users_data)
    /\ ppc' = "returned"
    /\ UNCHANGED <<users_data, idx, validated_users, origin, clientVars, postVars, aggVars, runVars,
                   mainVars, cacheVars, filterVars>>

UsersNext ==
    \/ users_skip_incomplete
    \/ users_append
    \/ users_skip_invalid
    \/ users_return

InitUsers == ClientIdle /\ UsersInit /\ PostIdle /\ AggIdle /\ RunIdle /\ RestIdle

SpecUsers == InitUsers /\ [][UsersNext]_vars

(***************************************************************************)
(* DataProcessor.process_posts.  Post is a plain dataclass: it stores the  *)
(* four raw values as they are, without validating them.                   *)
(***************************************************************************)
PostKeys == {"id", "userId", "title", "body"}
RawPostValues(k) ==
    CASE k = "id" -> {PyInt(7)}
      [] k = "userId" -> {PyInt(1), PyStr(<<"1">>)}
      [] k = "title" -> {PyStr(<<"t">>)}
      [] k = "body" -> {PyStr(<<"a", "b">>), PyNull}
AllRawPostValues == UNION {RawPostValues(k) : k \in PostKeys}

PostRecords ==
    UNION {{d \in [S -> AllRawPostValues] : \A k \in S : d[k] \in RawPostValues(k)} :
             S \in SUBSET PostKeys}

\* `post['id']`, `post['userId']`, `post['title']`, `post['body']`: a missing
\* key raises KeyError.
PostKeyError(d) == \E k \in PostKeys : ~(k \in DOMAIN d)

\* models/post.py: Post(id=..., user_id=..., title=..., body=...)
Post(d) ==
    [id |-> d["id"], user_id |-> d["userId"], title |-> d["title"],
     body |-> d["body"]]

PostsInit ==
    /\ posts_data \in SeqsUpTo(PostRecords, MaxPostsData)
    /\ pidx = 1
    /\ processed_posts = <<>>
    /\ qpc = "loop"
    /\ porigin = <<>>

\* lines 79-87: every key is there: the Post is built and appended.
\* (Appending in front instead is the mutant of the stable-filter property.)
posts_append_front ==
    /\ qpc = "loop" /\ pidx <= Len(posts_data)
    /\ ~PostKeyError(posts_data[pidx])
    /\ processed_posts' = <<Post(posts_data[pidx])>> \o processed_posts
    /\ porigin' = <<pidx>> \o porigin
    /\ pidx' = pidx + 1
    /\ UNCHANGED <<posts_data, qpc, clientVars, procVars, aggVars, runVars,
                   mainVars, cacheVars, filterVars>>
posts_append ==
    /\ qpc = "loop" /\ pidx <= Len(posts_data)
    /\ ~PostKeyError(posts_data[pidx])
    /\ processed_posts' = Append(processed_posts, Post(posts_data[pidx]))
    /\ porigin' = Append(porigin, pidx)
    /\ pidx' = pidx + 1
    /\ UNCHANGED <<posts_data, qpc, clientVars, procVars, aggVars, runVars,
                   mainVars, cacheVars, filterVars>>

\* lines 89-94: `except KeyError`: the error is logged, the loop goes on.
on_KeyError_propagate ==
    /\ qpc' = "raised"
    /\ UNCHANGED pidx
on_KeyError ==
    /\ pidx' = pidx + 1
    /\ UNCHANGED qpc

\* lines 79-94: a key is missing: building the Post raises KeyError.
posts_skip ==
    /\ qpc = "loop" /\ pidx <= Len(posts_data)
    /\ PostKeyError(posts_data[pidx])
    /\ on_KeyError
    /\ UNCHANGED <<posts_data, processed_posts, porigin,
                   clientVars, procVars, aggVars, runVars,
                   mainVars, cacheVars, filterVars>>

\* lines 96-97: return processed_posts.
posts_return ==
    /\ qpc = "loop" /\ pidx > Len(posts_data)
    /\ qpc' = "returned"
    /\ UNCHANGED <<posts_data, pidx, processed_posts, porigin,
                   clientVars, procVars, aggVars, runVars,
                   mainVars, cacheVars, filterVars>>

\* process_users or process_posts, called on its own with any list of dicts.
InitPosts == ClientIdle /\ ProcIdle /\ PostsInit /\ AggIdle /\ RunIdle /\ RestIdle
InitProc == InitUsers \/ InitPosts

ProcNext ==
    \/ users_skip_incomplete
    \/ users_append
    \/ users_skip_invalid
    \/ users_return
    \/ posts_append
    \/ posts_skip
    \/ posts_return

SpecProc == InitProc /\ [][ProcNext]_vars

(***************************************************************************)
(* DataProcessor.calculate_metrics (lines 120-145).                        *)
(***************************************************************************)
\* str.strip(): leading and trailing whitespace removed.
Whitespace == {" ", "\t", "\n"}
RECURSIVE LStrip(_)
LStrip(cs) ==
    IF cs # <<>> /\ Head(cs) \in Whitespace THEN LStrip(Tail(cs)) ELSE cs
RECURSIVE RStrip(_)
RStrip(cs) ==
    IF cs # <<>> /\ cs[Len(cs)] \in Whitespace
      THEN RStrip(SubSeq(cs, 1, Len(cs) - 1)) ELSE cs
Strip(cs) == RStrip(LStrip(cs))

\* `post.user_id == user.id`: the raw value against the validated int; a str
\* or None never equals an int.
PyEqInt(v, n) == v.t = "int" /\ v.n = n

\* `[post for post in posts if post.user_id == user.id]` (matching on the
\* post's own id is the mutant of the ownership property)
OwnedPostsUnfiltered(u, ps) == ps
OwnedPostsById(u, ps) == SelectSeq(ps, LAMBDA p : PyEqInt(p.id, u.id))
OwnedPosts(u, ps) == SelectSeq(ps, LAMBDA p : PyEqInt(p.user_id, u.id))

\* `len(post.body.strip())`; with no strip it is the mutant of the average.
BodyLenUnstripped(p) == Len(p.body.s)
BodyLen(p) == Len(Strip(p.body.s))

\* `sum(len(post.body.strip()) for post in user_posts)`
RECURSIVE TotalChars(_)
TotalChars(ps) == IF ps = <<>> THEN 0 ELSE BodyLen(Head(ps)) + TotalChars(Tail(ps))

\* `post.body.strip()` raises AttributeError when a body is not a str.
MetricsRaises(u, ps) ==
    \E i \in 1..Len(OwnedPosts(u, ps)) : OwnedPosts(u, ps)[i].body.t # "str"

\* The user as a call that returns leaves it (lines 122-140); adding to the
\* count instead of overwriting it is the mutant of idempotence.
CalcReturnsAccumulating(u, ps) ==
    LET owned == OwnedPosts(u, ps) IN
    [u EXCEPT !.posts = owned,
              !.post_count = u.post_count + Len(owned),
              !.avg_chars = IF owned # <<>>
                              THEN PyFloat(TotalChars(owned), Len(owned))
                              ELSE PyFloat(0, 1)]
CalcReturns(u, ps) ==
    LET owned == OwnedPosts(u, ps) IN
    [u EXCEPT !.posts = owned,
              !.post_count = Len(owned),
              !.avg_chars = IF owned # <<>>
                              THEN PyFloat(TotalChars(owned), Len(owned))
                              ELSE PyFloat(0, 1)]

\* The user as a call that raises ProcessingError leaves it (lines 122-124,
\* 142-145): posts and post_count are assigned before the sum fails.
\* (A call that rolled the user back would be atomic: the mutant.)
CalcRaisesAtomic(u, ps) == u
CalcRaises(u, ps) ==
    LET owned == OwnedPosts(u, ps) IN
    [u EXCEPT !.posts = owned, !.post_count = Len(owned)]

(***************************************************************************)
(* utils/helpers.py: sort_users_by_post_count.  sorted(..., reverse=True)  *)
(* is stable: among equal keys the input order is kept.                    *)
(***************************************************************************)
\* `key=lambda x: x.post_count or 0`
SortKey(u) == IF u.post_count = 0 THEN 0 ELSE u.post_count

\* x put into a list already sorted, behind every element whose key is not
\* smaller (in front of them in the mutant, which breaks stability).
RECURSIVE InsertBeforeTies(_, _)
InsertBeforeTies(x, us) ==
    IF us = <<>> THEN <<x>>
    ELSE IF SortKey(Head(us)) > SortKey(x)
           THEN <<Head(us)>> \o InsertBeforeTies(x, Tail(us))
           ELSE <<x>> \o us
RECURSIVE InsertStable(_, _)
InsertStable(x, us) ==
    IF us = <<>> THEN <<x>>
    ELSE IF SortKey(Head(us)) >= SortKey(x)
           THEN <<Head(us)>> \o InsertStable(x, Tail(us))
           ELSE <<x>> \o us

RECURSIVE sort_users_by_post_count(_)
sort_users_by_post_count(us) ==
    IF us = <<>> THEN <<>>
    ELSE InsertStable(us[Len(us)],
                      sort_users_by_post_count(SubSeq(us, 1, Len(us) - 1)))

(***************************************************************************)
(* calculate_metrics called on its own, possibly several times, on a user  *)
(* whose derived fields hold anything, with any list of Post objects.      *)
(***************************************************************************)
PostDict(uid, body) ==
    [k \in PostKeys |->
        CASE k = "id" -> PyInt(7)
          [] k = "userId" -> uid
          [] k = "title" -> PyStr(<<"t">>)
          [] k = "body" -> body]
BodyAb == PyStr(<<"a", "b">>)
BodyAbcdPadded == PyStr(<<" ", "a", "b", "c", "d", "\n">>)

\* The post records a posts fetch can bring in the run.
RunPostRecords ==
    {PostDict(PyInt(1), BodyAb), PostDict(PyInt(1), BodyAbcdPadded),
     PostDict(PyInt(2), BodyAb), PostDict(PyStr(<<"1">>), BodyAb),
     PostDict(PyInt(1), PyNull),
     [k \in {"id", "userId", "title"} |-> PostDict(PyInt(1), BodyAb)[k]]}

PostObjects == {Post(d) : d \in {r \in RunPostRecords : ~PostKeyError(r)}}

UserDict(id, name) ==
    [k \in UserKeys |->
        CASE k = "id" -> id
          [] k = "name" -> name
          [] k = "username" -> PyStr(<<"u">>)
          [] k = "email" -> PyStr(<<"e", "@", "x">>)]

\* The user records a users fetch can bring in the run.
RunUserRecords ==
    {UserDict(PyInt(1), PyStr(<<"A">>)), UserDict(PyStr(<<"2">>), PyStr(<<"A">>)),
     [k \in {"id", "name"} |-> UserDict(PyInt(1), PyStr(<<"A">>))[k]],
     [k \in {"name"} |-> PyStr(<<"A">>)]}

\* Users as a caller may hand them over: any earlier state of the derived
\* fields.
MetricUsers ==
    {[UserModel(d) EXCEPT !.posts = ps, !.post_count = n, !.avg_chars = a] :
        d \in {r \in RunUserRecords : UserModelValid(r)},
        ps \in {<<>>, <<Post(PostDict(PyInt(2), BodyAb))>>},
        n \in {0, 5},
        a \in {PyFloat(0, 1), PyFloat(7, 2)}}

InitMetrics ==
    /\ ClientIdle /\ ProcIdle /\ PostIdle /\ RestIdle
    /\ users \in [1..1 -> MetricUsers]
    /\ posts \in SeqsUpTo(PostObjects, MaxPosts)
    /\ calls = <<>>
    /\ first = <<>>
    /\ stage = "metrics" /\ uidx = 1 /\ sorted_users = <<>>
    /\ run_error = "none" /\ warned = FALSE /\ arg = <<>>

\* calculate_metrics(user, posts) returns.
calculate_metrics_returns ==
    /\ stage = "metrics" /\ Len(calls) < MaxCalls
    /\ ~MetricsRaises(users[1], posts)
    /\ users' = [users EXCEPT ![1] = CalcReturns(users[1], posts)]
    /\ calls' = Append(calls, [user |-> 1, how |-> "returned"])
    /\ first' = IF calls = <<>> THEN users' ELSE first
    /\ UNCHANGED <<posts, clientVars, procVars, postVars, runVars,
                   mainVars, cacheVars, filterVars>>

\* calculate_metrics(user, posts) raises ProcessingError.
calculate_metrics_raises ==
    /\ stage = "metrics" /\ Len(calls) < MaxCalls
    /\ MetricsRaises(users[1], posts)
    /\ users' = [users EXCEPT ![1] = CalcRaises(users[1], posts)]
    /\ calls' = Append(calls, [user |-> 1, how |-> "ProcessingError"])
    /\ first' = IF calls = <<>> THEN users' ELSE first
    /\ UNCHANGED <<posts, clientVars, procVars, postVars, runVars,
                   mainVars, cacheVars, filterVars>>

(***************************************************************************)
(* UserAnalytics.run_analysis (main.py lines 49-84).                       *)
(***************************************************************************)
\* An entry of the trail: the stage entered, and for an aggregation the
\* position of the user in self.users.
Ev(e) == [ev |-> e, n |-> 0]

\* generate_pdf_report: `if not users:` (report_generator.py line 387); a
\* generator that accepts the empty list is the mutant of the empty-result
\* property.
PdfRefusesNothing(us) == FALSE
PdfRefuses(us) == us = <<>>

InitRun ==
    /\ ClientIdle /\ ProcIdle /\ PostIdle /\ AggIdle /\ RestIdle
    /\ stage = "fetch_users" /\ uidx = 1 /\ sorted_users = <<>>
    /\ run_error = "none" /\ warned = FALSE /\ arg = <<>>

\* line 52: get_paginated(USERS_ENDPOINT) returns whatever the pages held.
run_fetch_users ==
    /\ stage = "fetch_users"
    /\ users_data' \in SeqsUpTo(RunUserRecords, MaxUsersData)
    /\ stage' = "fetch_posts"
    /\ trail' = Append(trail, Ev("fetch_users"))
    /\ UNCHANGED <<idx, validated_users, ppc, origin, uidx, sorted_users,
                   run_error, warned, arg, clientVars, postVars, aggVars,
                   artifacts, emails, email_enabled, error_id,
                   cacheVars, filterVars>>

\* line 53: get_paginated(POSTS_ENDPOINT) returns whatever the pages held.
run_fetch_posts ==
    /\ stage = "fetch_posts"
    /\ posts_data' \in SeqsUpTo(RunPostRecords, MaxPostsData)
    /\ stage' = "call_process_users"
    /\ trail' = Append(trail, Ev("fetch_posts"))
    /\ UNCHANGED <<pidx, processed_posts, qpc, porigin, uidx, sorted_users,
                   run_error, warned, arg, clientVars, procVars, aggVars,
                   artifacts, emails, email_enabled, error_id,
                   cacheVars, filterVars>>

\* lines 52-53: get_paginated lets through what is not an APIError: the
\* OSError of a failed metric write ends the run.
run_fetch_raises ==
    /\ stage \in {"fetch_users", "fetch_posts"}
    /\ stage' = "failed"
    /\ run_error' = "OSError"
    /\ trail' = Append(trail, Ev(stage))
    /\ UNCHANGED <<uidx, sorted_users, warned, arg,
                   clientVars, procVars, postVars, aggVars,
                   artifacts, emails, email_enabled, error_id,
                   cacheVars, filterVars>>

\* line 57: process_users(users_data) is entered.
run_call_process_users ==
    /\ stage = "call_process_users"
    /\ idx' = 1 /\ validated_users' = <<>> /\ origin' = <<>> /\ ppc' = "loop"
    /\ stage' = "process_users"
    /\ trail' = Append(trail, Ev("process_users"))
    /\ UNCHANGED <<users_data, uidx, sorted_users, run_error, warned, arg,
                   clientVars, postVars, aggVars,
                   artifacts, emails, email_enabled, error_id,
                   cacheVars, filterVars>>

\* lines 57-58: self.users = <result>; process_posts(posts_data) is entered.
run_call_process_posts ==
    /\ stage = "process_users" /\ ppc = "returned"
    /\ users' = validated_users
    /\ pidx' = 1 /\ processed_posts' = <<>> /\ porigin' = <<>> /\ qpc' = "loop"
    /\ stage' = "process_posts"
    /\ trail' = Append(trail, Ev("process_posts"))
    /\ UNCHANGED <<posts_data, posts, calls, first, uidx, sorted_users,
                   run_error, warned, arg, clientVars, procVars,
                   artifacts, emails, email_enabled, error_id,
                   cacheVars, filterVars>>

\* lines 58, 62: posts = <result>; the loop over self.users starts.
run_start_aggregate ==
    /\ stage = "process_posts" /\ qpc = "returned"
    /\ posts' = processed_posts
    /\ uidx' = 1
    /\ stage' = "aggregate"
    /\ UNCHANGED <<users, calls, first, sorted_users, run_error, warned, arg,
                   clientVars, procVars, postVars,
                   mainVars, cacheVars, filterVars>>

\* (Mutants of the run: a loop that does not advance, and a loop that goes on
\* after calculate_metrics raised.)
run_aggregate_returns_stays ==
    /\ stage = "aggregate" /\ uidx <= Len(users)
    /\ ~MetricsRaises(users[uidx], posts)
    /\ users' = [users EXCEPT ![uidx] = CalcReturns(users[uidx], posts)]
    /\ calls' = Append(calls, [user |-> uidx, how |-> "returned"])
    /\ trail' = Append(trail, [ev |-> "aggregate", n |-> uidx])
    /\ UNCHANGED <<posts, first, stage, uidx, sorted_users, run_error, warned, arg,
                   clientVars, procVars, postVars,
                   artifacts, emails, email_enabled, error_id,
                   cacheVars, filterVars>>
run_aggregate_raises_goes_on ==
    /\ stage = "aggregate" /\ uidx <= Len(users)
    /\ MetricsRaises(users[uidx], posts)
    /\ users' = [users EXCEPT ![uidx] = CalcRaises(users[uidx], posts)]
    /\ calls' = Append(calls, [user |-> uidx, how |-> "ProcessingError"])
    /\ trail' = Append(trail, [ev |-> "aggregate", n |-> uidx])
    /\ uidx' = uidx + 1
    /\ UNCHANGED <<posts, first, stage, sorted_users, run_error, warned, arg,
                   clientVars, procVars, postVars,
                   artifacts, emails, email_enabled, error_id,
                   cacheVars, filterVars>>

\* lines 62-63: calculate_metrics(user, posts) returns for the next user.
run_aggregate_returns ==
    /\ stage = "aggregate" /\ uidx <= Len(users)
    /\ ~MetricsRaises(users[uidx], posts)
    /\ users' = [users EXCEPT ![uidx] = CalcReturns(users[uidx], posts)]
    /\ calls' = Append(calls, [user |-> uidx, how |-> "returned"])
    /\ uidx' = uidx + 1
    /\ trail' = Append(trail, [ev |-> "aggregate", n |-> uidx])
    /\ UNCHANGED <<posts, first, stage, sorted_users, run_error, warned, arg,
                   clientVars, procVars, postVars,
                   artifacts, emails, email_enabled, error_id,
                   cacheVars, filterVars>>

\* lines 62-63, 82-84: calculate_metrics raises ProcessingError; run_analysis
\* logs it and re-raises.
run_aggregate_raises ==
    /\ stage = "aggregate" /\ uidx <= Len(users)
    /\ MetricsRaises(users[uidx], posts)
    /\ users' = [users EXCEPT ![uidx] = CalcRaises(users[uidx], posts)]
    /\ calls' = Append(calls, [user |-> uidx, how |-> "ProcessingError"])
    /\ stage' = "failed"
    /\ run_error' = "ProcessingError"
    /\ trail' = Append(trail, [ev |-> "aggregate", n |-> uidx])
    /\ error_id' = users[uidx].id
    /\ UNCHANGED <<posts, first, uidx, sorted_users, warned, arg,
                   clientVars, procVars, postVars,
                   artifacts, emails, email_enabled,
                   cacheVars, filterVars>>

\* line 67: sorted_users = sort_users_by_post_count(self.users)
run_sort ==
    /\ stage = "aggregate" /\ uidx > Len(users)
    /\ sorted_users' = sort_users_by_post_count(users)
    /\ stage' = "render_pdf"
    /\ trail' = Append(trail, Ev("sort"))
    /\ UNCHANGED <<uidx, run_error, warned, arg,
                   clientVars, procVars, postVars, aggVars,
                   artifacts, emails, email_enabled, error_id,
                   cacheVars, filterVars>>

\* lines 71-74 and report_generator.py lines 387-389: generate_pdf_report
\* refuses an empty list with ValueError, otherwise writes the PDF.
run_render_pdf ==
    /\ stage = "render_pdf"
    /\ trail' = Append(trail, Ev("render_pdf"))
    /\ IF PdfRefuses(sorted_users)
         THEN stage' = "failed" /\ run_error' = "ValueError" /\ UNCHANGED artifacts
         ELSE /\ stage' = "render_excel" /\ UNCHANGED run_error
              /\ artifacts' = Append(artifacts, "pdf")
    /\ UNCHANGED <<uidx, sorted_users, warned, arg,
                   clientVars, procVars, postVars, aggVars,
                   emails, email_enabled, error_id,
                   cacheVars, filterVars>>

\* lines 75-80: generate_excel_report writes the sheet; both paths are returned.
run_render_excel ==
    /\ stage = "render_excel"
    /\ stage' = "done"
    /\ trail' = Append(trail, Ev("render_excel"))
    /\ artifacts' = Append(artifacts, "excel")
    /\ UNCHANGED <<uidx, sorted_users, run_error, warned, arg,
                   clientVars, procVars, postVars, aggVars,
                   emails, email_enabled, error_id,
                   cacheVars, filterVars>>

\* calculate_metrics on its own, or one whole run of run_analysis.
InitAgg == InitMetrics \/ InitRun

AggNext ==
    \/ calculate_metrics_returns
    \/ calculate_metrics_raises
    \/ run_fetch_users
    \/ run_fetch_posts
    \/ run_fetch_raises
    \/ run_call_process_users
    \/ users_skip_incomplete
    \/ users_append
    \/ users_skip_invalid
    \/ users_return
    \/ run_call_process_posts
    \/ posts_append
    \/ posts_skip
    \/ posts_return
    \/ run_start_aggregate
    \/ run_aggregate_returns
    \/ run_aggregate_raises
    \/ run_sort
    \/ run_render_pdf
    \/ run_render_excel

SpecAgg == InitAgg /\ [][AggNext]_vars

(***************************************************************************)
(* The helpers called on their own: sort_users_by_post_count               *)
(* (utils/helpers.py) and DataProcessor.validate_users, with any list of   *)
(* users.                                                                  *)
(***************************************************************************)
HelperUsers ==
    {[UserModel(UserDict(PyInt(1), PyStr(<<"A">>))) EXCEPT !.id = i, !.post_count = n] :
        i \in 1..3, n \in {0, 3, 7}}

\* helpers.py line 28: `user.post_count and user.post_count >= min_posts`; a
\* post_count of 0 is falsy.
IsActive(u, m) == u.post_count # 0 /\ u.post_count >= m
filter_active_users(us, m) == SelectSeq(us, LAMBDA u : IsActive(u, m))

InitHelpers ==
    /\ ClientIdle /\ ProcIdle /\ PostIdle /\ MainIdle /\ CacheIdle
    /\ users \in SeqsUpTo(HelperUsers, MaxHelperUsers)
    /\ arg = users
    /\ posts = <<>> /\ calls = <<>> /\ first = <<>>
    /\ stage \in {"call_sort", "call_validate", "call_filter"}
    /\ min_posts \in IF stage = "call_filter" THEN (-1)..MaxMinPosts ELSE {1}
    /\ active_users = <<>>
    /\ uidx = 1 /\ sorted_users = <<>> /\ run_error = "none" /\ warned = FALSE

\* helpers.py line 15: a new list is returned, `users` is left as it is.
helper_sort ==
    /\ stage = "call_sort"
    /\ sorted_users' = sort_users_by_post_count(users)
    /\ stage' = "sorted"
    /\ UNCHANGED <<uidx, run_error, warned, arg,
                   clientVars, procVars, postVars, aggVars,
                   mainVars, cacheVars, filterVars>>

\* `if not users:` (data_processor.py line 150); refusing zero counts as well
\* is the mutant.
ValidateRejectsZeroCounts(us) ==
    us = <<>> \/ \E i \in 1..Len(us) : us[i].post_count = 0
ValidateRejects(us) == us = <<>>

\* data_processor.py lines 148-155.
validate_users ==
    /\ stage = "call_validate"
    /\ stage' = "validated"
    /\ IF ValidateRejects(users)
         THEN run_error' = "ValueError" /\ UNCHANGED warned
         ELSE /\ warned' = (\E i \in 1..Len(users) : users[i].post_count = 0)
              /\ UNCHANGED run_error
    /\ UNCHANGED <<uidx, sorted_users, arg,
                   clientVars, procVars, postVars, aggVars,
                   mainVars, cacheVars, filterVars>>

\* helpers.py lines 17-28: filter_active_users(users, min_posts) returns a new
\* list.
helper_filter ==
    /\ stage = "call_filter"
    /\ active_users' = filter_active_users(users, min_posts)
    /\ stage' = "filtered"
    /\ UNCHANGED <<uidx, sorted_users, run_error, warned, arg, min_posts,
                   clientVars, procVars, postVars, aggVars, mainVars, cacheVars>>

HelpersNext ==
    \/ helper_sort
    \/ validate_users
    \/ helper_filter

SpecHelpers == InitHelpers /\ [][HelpersNext]_vars

(***************************************************************************)
(* main (main.py lines 86-130): run_analysis, then the notification; and   *)
(* the report generator called on its own.                                 *)
(***************************************************************************)
InitMain ==
    /\ ClientIdle /\ ProcIdle /\ PostIdle /\ AggIdle /\ CacheIdle /\ FilterIdle
    /\ stage = "fetch_users" /\ uidx = 1 /\ sorted_users = <<>>
    /\ run_error = "none" /\ warned = FALSE /\ arg = <<>>
    /\ trail = <<>> /\ artifacts = <<>> /\ emails = <<>> /\ error_id = 0
    /\ email_enabled \in BOOLEAN

\* report_generator.py lines 351-353 and 533-535: building or saving a report
\* of a non-empty list fails (disk, library); the exception is logged and
\* re-raised, and leaves run_analysis.
run_render_raises ==
    /\ \/ stage = "render_pdf" /\ ~PdfRefuses(sorted_users)
       \/ stage = "render_excel"
    /\ trail' = Append(trail, Ev(stage))
    /\ stage' = "failed"
    /\ run_error' = "RenderError"
    /\ UNCHANGED <<uidx, sorted_users, warned, arg, artifacts, emails,
                   email_enabled, error_id,
                   clientVars, procVars, postVars, aggVars, cacheVars, filterVars>>

\* (A False result that ends main with an exception is the mutant of the
\* notification property.)
main_notify_fatal ==
    /\ stage = "done" /\ email_enabled
    /\ \E sent \in BOOLEAN :
         /\ emails' = Append(emails, sent)
         /\ stage' = IF sent THEN "main_returned" ELSE "main_raised"
    /\ trail' = Append(trail, Ev("notify"))
    /\ UNCHANGED <<uidx, sorted_users, run_error, warned, arg, artifacts,
                   email_enabled, error_id,
                   clientVars, procVars, postVars, aggVars, cacheVars, filterVars>>

\* main.py lines 114-126: send_report_email is called; it returns True, or
\* False when anything inside it raised (client.py lines 115-146); either
\* result is only logged.
main_notify ==
    /\ stage = "done" /\ email_enabled
    /\ \E sent \in BOOLEAN : emails' = Append(emails, sent)
    /\ trail' = Append(trail, Ev("notify"))
    /\ stage' = "main_returned"
    /\ UNCHANGED <<uidx, sorted_users, run_error, warned, arg, artifacts,
                   email_enabled, error_id,
                   clientVars, procVars, postVars, aggVars, cacheVars, filterVars>>

\* main.py line 114: EMAIL_ENABLED is off, main is done.
main_skip_notify ==
    /\ stage = "done" /\ ~email_enabled
    /\ stage' = "main_returned"
    /\ UNCHANGED <<uidx, sorted_users, run_error, warned, arg,
                   mainVars, clientVars, procVars, postVars, aggVars,
                   cacheVars, filterVars>>

\* main.py lines 128-130: what run_analysis raised is logged and re-raised.
main_reraise ==
    /\ stage = "failed"
    /\ stage' = "main_raised"
    /\ UNCHANGED <<uidx, sorted_users, run_error, warned, arg,
                   mainVars, clientVars, procVars, postVars, aggVars,
                   cacheVars, filterVars>>

\* ReportGenerator called on its own with any list of users.
InitReports ==
    /\ ClientIdle /\ ProcIdle /\ PostIdle /\ MainIdle /\ CacheIdle /\ FilterIdle
    /\ users \in SeqsUpTo(HelperUsers, MaxHelperUsers)
    /\ arg = users
    /\ posts = <<>> /\ calls = <<>> /\ first = <<>>
    /\ stage \in {"call_pdf", "call_reports"}
    /\ uidx = 1 /\ sorted_users = <<>> /\ run_error = "none" /\ warned = FALSE

\* report_generator.py lines 375-389: generate_pdf_report(users, filename).
generate_pdf_report ==
    /\ stage = "call_pdf"
    /\ IF PdfRefuses(users)
         THEN stage' = "report_raised" /\ run_error' = "ValueError"
              /\ UNCHANGED artifacts
         ELSE stage' = "report_returned" /\ UNCHANGED run_error
              /\ artifacts' = Append(artifacts, "pdf")
    /\ UNCHANGED <<uidx, sorted_users, warned, arg, trail, emails,
                   email_enabled, error_id,
                   clientVars, procVars, postVars, aggVars, cacheVars, filterVars>>

\* report_generator.py lines 355-374: generate_reports calls
\* generate_pdf_report, then generate_excel_report; what they raise is logged
\* and re-raised.
generate_reports ==
    /\ stage = "call_reports"
    /\ IF PdfRefuses(users)
         THEN stage' = "report_raised" /\ run_error' = "ValueError"
              /\ UNCHANGED artifacts
         ELSE stage' = "report_returned" /\ UNCHANGED run_error
              /\ artifacts' = artifacts \o <<"pdf", "excel">>
    /\ UNCHANGED <<uidx, sorted_users, warned, arg, trail, emails,
                   email_enabled, error_id,
                   clientVars, procVars, postVars, aggVars, cacheVars, filterVars>>

\* One whole execution of main, or one call of the report generator.
InitMainOrReports == InitMain \/ InitReports

MainNext ==
    \/ run_fetch_users
    \/ run_fetch_posts
    \/ run_fetch_raises
    \/ run_call_process_users
    \/ users_skip_incomplete
    \/ users_append
    \/ users_skip_invalid
    \/ users_return
    \/ run_call_process_posts
    \/ posts_append
    \/ posts_skip
    \/ posts_return
    \/ run_start_aggregate
    \/ run_aggregate_returns
    \/ run_aggregate_raises
    \/ run_sort
    \/ run_render_pdf
    \/ run_render_excel
    \/ run_render_raises
    \/ main_notify
    \/ main_skip_notify
    \/ main_reraise
    \/ generate_pdf_report
    \/ generate_reports

SpecMain == InitMainOrReports /\ [][MainNext]_vars

(***************************************************************************)
(* RedisCache (src/src/utils/cache.py): values are stored as their JSON    *)
(* text.  The backend can fail at any call (connection lost), and can hold *)
(* text that other programs wrote.                                         *)
(***************************************************************************)
\* A Python value json.dumps cannot serialize (a set, a User object).
PyObj == [t |-> "obj", n |-> 0, s |-> <<>>]
CacheValues == {PyInt(0), PyInt(1), PyStr(<<"a">>), PyNull, PyObj}

DigitChars == <<"0", "1", "2", "3", "4", "5", "6", "7", "8", "9">>
Quote == "\""
NullText == <<"n", "u", "l", "l">>

\* json.dumps(value): the JSON text, as its characters.
DumpsRaises(v) == v.t = "obj"
Dumps(v) ==
    CASE v.t = "int" -> <<DigitChars[v.n + 1]>>
      [] v.t = "str" -> <<Quote>> \o v.s \o <<Quote>>
      [] v.t = "null" -> NullText

\* json.loads(text): the value, or JSONDecodeError when text is no JSON.
IsDigitText(raw) == Len(raw) = 1 /\ \E i \in 1..10 : DigitChars[i] = raw[1]
IsStringText(raw) == Len(raw) >= 2 /\ raw[1] = Quote /\ raw[Len(raw)] = Quote
LoadsRaises(raw) == ~(raw = NullText \/ IsDigitText(raw) \/ IsStringText(raw))
Loads(raw) ==
    CASE raw = NullText -> PyNull
      [] IsDigitText(raw) -> PyInt((CHOOSE i \in 1..10 : DigitChars[i] = raw[1]) - 1)
      [] IsStringText(raw) -> PyStr(SubSeq(raw, 2, Len(raw) - 1))

Stored(raw) == [present |-> TRUE, raw |-> raw]
\* What another program may have left under a key: nothing, the empty string,
\* or text that is not JSON.
ForeignEntries == {Absent, Stored(<<>>), Stored(<<"{">>)}

InitCache ==
    /\ ClientIdle /\ ProcIdle /\ PostIdle /\ AggIdle /\ RunIdle
    /\ MainIdle /\ FilterIdle
    /\ store \in [CacheKeys -> ForeignEntries]
    /\ store_before = store
    /\ cache_last = NoCacheOp
    /\ cache_ops = 0

\* The except branches (lines 49-51 and 72-74) call setup_logging.warning;
\* setup_logging is the function of utils/logger.py (line 7) and has no
\* attribute `warning`, so the handler itself raises AttributeError and the
\* `return None` / `return False` behind it is never reached.
CacheHandlerOutcome == "AttributeError"

CacheOp(op, k, how, val, ok) ==
    /\ cache_last' = [op |-> op, key |-> k, how |-> how, val |-> val, ok |-> ok]
    /\ store_before' = store
    /\ cache_ops' = cache_ops + 1

\* get(key), lines 44-48: the backend answers and the text, if any, decodes.
cache_get_returns ==
    /\ cache_ops < MaxCacheOps
    /\ \E k \in CacheKeys :
         /\ ~(store[k].present /\ store[k].raw # <<>> /\ LoadsRaises(store[k].raw))
         /\ CacheOp("get", k, "returned",
                    IF store[k].present /\ store[k].raw # <<>>
                      THEN Loads(store[k].raw) ELSE PyNull,
                    TRUE)
    /\ UNCHANGED <<store, clientVars, procVars, postVars, aggVars, runVars,
                   mainVars, filterVars>>

\* get(key), lines 45-51: client.get raises (backend) or json.loads raises
\* (decoding): the except branch runs.
cache_get_fails ==
    /\ cache_ops < MaxCacheOps
    /\ \E k \in CacheKeys, backend_up \in BOOLEAN :
         /\ ~backend_up \/ (store[k].present /\ store[k].raw # <<>>
                              /\ LoadsRaises(store[k].raw))
         /\ CacheOp("get", k, CacheHandlerOutcome, PyNull, FALSE)
    /\ UNCHANGED <<store, clientVars, procVars, postVars, aggVars, runVars,
                   mainVars, filterVars>>

\* set(key, value), lines 66-71: the value is serialized and stored; setex
\* answers True.
cache_set_stores ==
    /\ cache_ops < MaxCacheOps
    /\ \E k \in CacheKeys, v \in CacheValues :
         /\ ~DumpsRaises(v)
         /\ store' = [store EXCEPT ![k] = Stored(Dumps(v))]
         /\ CacheOp("set", k, "returned", v, TRUE)
    /\ UNCHANGED <<clientVars, procVars, postVars, aggVars, runVars,
                   mainVars, filterVars>>

\* set(key, value), lines 67-74: json.dumps raises (value not serializable) or
\* setex raises (backend): the except branch runs, nothing is stored.
cache_set_fails ==
    /\ cache_ops < MaxCacheOps
    /\ \E k \in CacheKeys, v \in CacheValues, backend_up \in BOOLEAN :
         /\ ~backend_up \/ DumpsRaises(v)
         /\ CacheOp("set", k, CacheHandlerOutcome, v, FALSE)
    /\ UNCHANGED <<store, clientVars, procVars, postVars, aggVars, runVars,
                   mainVars, filterVars>>

CacheNext ==
    \/ cache_get_returns
    \/ cache_get_fails
    \/ cache_set_stores
    \/ cache_set_fails

SpecCache == InitCache /\ [][CacheNext]_vars

(***************************************************************************)
(* Vocabulary of the client's properties.                                  *)
(***************************************************************************)
Done == pc = "done"
HttpOk(h) == h.kind \in {"ok", "logfail"}
AllFail == \A i \in 1..Len(hist) : hist[i].kind = "fail"
FirstSuccess(k) ==
    /\ k \in 1..Len(hist)
    /\ HttpOk(hist[k])
    /\ \A i \in 1..(k - 1) : hist[i].kind = "fail"

RECURSIVE ConcatBodies(_)
ConcatBodies(hs) ==
    IF hs = <<>> THEN <<>> ELSE Head(hs).body \o ConcatBodies(Tail(hs))
OkBefore(k) ==
    SelectSeq(SubSeq(hist, 1, k - 1), LAMBDA h : h.kind = "ok")
OkOfPagesBelow(p) ==
    SelectSeq(hist, LAMBDA h : h.kind = "ok" /\ h.page < p)

RECURSIVE SumSecs(_)
SumSecs(ss) == IF ss = <<>> THEN 0 ELSE Head(ss).secs + SumSecs(Tail(ss))

RECURSIVE ExpectedSleeps(_)
ExpectedSleeps(n) ==
    IF n = 0 THEN <<>>
    ELSE LET h == hist[n] IN
         IF h.kind = "fail" /\ h.attempt < max_retries - 1
           THEN Append(ExpectedSleeps(n - 1), [after |-> n, secs |-> 2 ^ h.attempt])
           ELSE ExpectedSleeps(n - 1)

\* C1: a direct get whose every HTTP attempt fails issues exactly max_retries
\* requests (max_retries >= 1), never more while it runs, and ends by raising
\* APIError, never by returning a value.
C1_RetryExhaustion ==
    (caller = "get" /\ max_retries >= 1 /\ AllFail) =>
        /\ Len(hist) <= max_retries
        /\ Done => (outcome = "APIError" /\ Len(hist) = max_retries)
        /\ ~Done => Len(hist) < max_retries
C1_Witness ==
    /\ caller = "get" /\ max_retries = 3 /\ Done /\ AllFail
    /\ Len(hist) = 3 /\ outcome = "APIError"

\* C2: get raises APIError only when all max_retries attempts failed; when
\* attempt k is the first whose HTTP request succeeds, get returns that
\* response's body after exactly k+1 requests and issues no further request.
C2_FirstSuccessReturns ==
    caller = "get" =>
        /\ outcome = "APIError" => (AllFail /\ Len(hist) = max_retries)
        /\ \A k \in 1..Len(hist) :
             FirstSuccess(k) =>
                /\ Len(hist) = k /\ hist[k].attempt = k - 1
                /\ Done /\ outcome = "returned" /\ retval = Json(hist[k].body)

\* C3: get_paginated never ends with APIError; when every attempt on page p
\* failed, it has returned the concatenation of the bodies of pages 1..p-1 and
\* has requested no page beyond p.
C3_PartialOnExhaustion ==
    caller = "get_paginated" =>
        /\ outcome # "APIError"
        /\ \A k \in 1..Len(hist) :
             (hist[k].kind = "fail" /\ hist[k].attempt = max_retries - 1) =>
                /\ Done /\ outcome = "returned"
                /\ retval = Json(ConcatBodies(OkOfPagesBelow(hist[k].page)))
                /\ k = Len(hist)
                /\ \A i \in 1..Len(hist) : hist[i].page <= hist[k].page
C3_Witness ==
    /\ caller = "get_paginated" /\ max_retries >= 2 /\ Done
    /\ Len(hist) = 1 + max_retries
    /\ hist[1].kind = "ok" /\ hist[1].page = 1
    /\ \A i \in 2..Len(hist) : hist[i].kind = "fail" /\ hist[i].page = 2
    /\ outcome = "returned" /\ retval = Json(hist[1].body) /\ Len(hist[1].body) > 0

\* C4: the first page served with at least one and fewer than page_size records
\* is appended to the results and is the last page requested; when it is the
\* answer to the first request of page 1, the call returns exactly its records
\* after exactly one HTTP request.
C4_ShortPageStops ==
    caller = "get_paginated" =>
        \A k \in 1..Len(hist) :
            (HttpOk(hist[k]) /\ Len(hist[k].body) >= 1 /\ Len(hist[k].body) < page_size) =>
                /\ Len(hist) = k /\ Done /\ outcome = "returned"
                /\ retval = Json(ConcatBodies(OkBefore(k)) \o hist[k].body)
                /\ k = 1 => retval = Json(hist[1].body)

\* C5: when every request succeeds with exactly page_size records, the call
\* ends after exactly max_pages requests, for pages 1..max_pages, returning
\* max_pages * page_size records and raising nothing.
C5_MaxPagesStops ==
    (/\ caller = "get_paginated" /\ max_retries >= 1 /\ Done
     /\ \A i \in 1..Len(hist) : HttpOk(hist[i]) /\ Len(hist[i].body) = page_size) =>
        /\ Len(hist) = max_pages
        /\ \A i \in 1..Len(hist) : hist[i].page = i
        /\ outcome = "returned"
        /\ retval.kind = "json" /\ Len(retval.body) = max_pages * page_size

\* C6: a page request that succeeds with zero records ends pagination at once:
\* no later request is issued and the records of the earlier pages are returned
\* with nothing appended.
C6_EmptyPageStops ==
    caller = "get_paginated" =>
        \A k \in 1..Len(hist) :
            (HttpOk(hist[k]) /\ Len(hist[k].body) = 0) =>
                /\ Len(hist) = k /\ Done /\ outcome = "returned"
                /\ retval = Json(ConcatBodies(OkBefore(k)))

\* C7: get sleeps 2^a seconds after failed attempt a when a < max_retries - 1,
\* and at no other time (not after the last failed attempt, not after a
\* success); a direct get that fails on every attempt has slept
\* 2^(max_retries-1) - 1 seconds in total.
C7_BackoffSchedule ==
    /\ sleeps = ExpectedSleeps(Len(hist))
    /\ (caller = "get" /\ max_retries >= 1 /\ Done /\ AllFail) =>
           SumSecs(sleeps) = 2 ^ (max_retries - 1) - 1
C7_Witness ==
    /\ caller = "get" /\ max_retries = 3 /\ Done /\ AllFail
    /\ Len(sleeps) = 2 /\ sleeps[1].secs = 1 /\ sleeps[2].secs = 2
    /\ SumSecs(sleeps) = 3

\* C8: when the HTTP attempt succeeded but writing the performance metric
\* failed, get still returns the response body and does not raise.
C8_MetricFailureHarmless ==
    (caller = "get" /\ Len(hist) >= 1 /\ hist[Len(hist)].kind = "logfail") =>
        /\ outcome = "returned"
        /\ retval = Json(hist[Len(hist)].body)

\* C9: get_paginated ends, whatever the remote resource does, and has then
\* issued at most max_pages * max_retries HTTP requests.
C9_BoundedTermination ==
    /\ [](caller = "get_paginated" => Len(hist) <= max_pages * max_retries)
    /\ <>(pc = "done")
C9_Witness ==
    /\ caller = "get_paginated" /\ Done /\ max_pages >= 2 /\ max_retries >= 2
    /\ Len(hist) = max_pages * max_retries

(***************************************************************************)
(* Vocabulary of the processor's properties.                               *)
(***************************************************************************)
Range(f) == {f[i] : i \in DOMAIN f}
\* A raw record that carries every field the User model requires, each of a
\* type the model accepts.
WellFormedUser(d) ==
    /\ {"id", "name", "username", "email"} \subseteq DOMAIN d
    /\ d["id"] \in {PyInt(1), PyStr(<<"2">>)}
    /\ \A k \in {"name", "username", "email"} : d[k].t = "str"
\* User u carries every required field of the well-formed record d.
CompleteUser(u, d) ==
    /\ WellFormedUser(d)
    /\ u.id = (IF d["id"] = PyInt(1) THEN 1 ELSE 2)
    /\ u.name = d["name"].s /\ u.username = d["username"].s
    /\ u.email = d["email"].s

\* C10: process_users never raises over a bad record: every record already
\* looked at that lacks id or name, or that fails validation, has produced no
\* user; every user in the output is completely constructed; and the loop runs
\* to the end of the input, keeping every well-formed record whatever bad
\* records precede it.
C10_BadUsersSkipped ==
    /\ ppc # "raised"
    /\ \A i \in 1..(idx - 1) :
         (~("id" \in DOMAIN users_data[i]) \/ ~("name" \in DOMAIN users_data[i])
            \/ ~WellFormedUser(users_data[i])) => i \notin Range(origin)
    /\ Len(origin) = Len(validated_users)
    /\ \A j \in 1..Len(validated_users) :
         /\ origin[j] \in 1..(idx - 1)
         /\ CompleteUser(validated_users[j], users_data[origin[j]])
    /\ ppc = "returned" =>
         /\ idx = Len(users_data) + 1
         /\ \A i \in 1..Len(users_data) :
              WellFormedUser(users_data[i]) => i \in Range(origin)
C10_Witness ==
    /\ ppc = "returned" /\ Len(users_data) = 2
    /\ ~("name" \in DOMAIN users_data[1])
    /\ WellFormedUser(users_data[2])
    /\ origin = <<2>> /\ Len(validated_users) = 1 /\ validated_users[1].id = 1

\* C11: a raw user record that carries id and name (of acceptable types) is
\* kept by process_users whatever else it lacks: once the call has returned,
\* every such record is behind one of the output users.
C11_IdNameSuffices ==
    ppc = "returned" =>
        \A i \in 1..Len(users_data) :
            (/\ {"id", "name"} \subseteq DOMAIN users_data[i]
             /\ users_data[i]["id"] \in {PyInt(1), PyStr(<<"2">>)}
             /\ users_data[i]["name"].t = "str") => i \in Range(origin)

(***************************************************************************)
(* Stable filters.                                                         *)
(***************************************************************************)
StrictlyIncreasing(f) == \A i, j \in DOMAIN f : i < j => f[i] < f[j]

\* C12: the output of process_users and of process_posts is a subsequence of
\* the input: output element j was built from input record origin[j], the
\* origins are input positions already visited, and they strictly increase
\* (input order kept, no record used twice).
C12_StableFilter ==
    /\ Len(origin) = Len(validated_users)
    /\ StrictlyIncreasing(origin)
    /\ \A j \in 1..Len(origin) :
         /\ origin[j] \in 1..(idx - 1) /\ origin[j] <= Len(users_data)
         /\ CompleteUser(validated_users[j], users_data[origin[j]])
    /\ Len(porigin) = Len(processed_posts)
    /\ StrictlyIncreasing(porigin)
    /\ \A j \in 1..Len(porigin) :
         /\ porigin[j] \in 1..(pidx - 1) /\ porigin[j] <= Len(posts_data)
         /\ LET d == posts_data[porigin[j]] IN
            /\ PostKeys \subseteq DOMAIN d
            /\ processed_posts[j].id = d["id"]
            /\ processed_posts[j].user_id = d["userId"]
            /\ processed_posts[j].title = d["title"]
            /\ processed_posts[j].body = d["body"]
C12_Witness ==
    /\ qpc = "returned" /\ Len(posts_data) = 2 /\ porigin = <<1, 2>>
    /\ posts_data[1] # posts_data[2]
    /\ processed_posts[1].user_id = posts_data[1]["userId"]
    /\ processed_posts[2].user_id = posts_data[2]["userId"]

RunEnded == stage \in {"done", "failed"}
Rendering == stage \in {"render_pdf", "render_excel", "done"}
\* The int the User of a well-formed record carries as id.
ExpectedId(d) == IF d["id"] = PyInt(1) THEN 1 ELSE 2
\* The posts whose user_id is the int n, in the order of posts.
ExpectedOwned(n) == SelectSeq(posts, LAMBDA p : p.user_id = PyInt(n))
\* Length of a string without its leading and trailing whitespace.
TrimmedLen(cs) ==
    LET inner == {i \in 1..Len(cs) : cs[i] \notin {" ", "\t", "\n"}} IN
    IF inner = {} THEN 0
    ELSE (CHOOSE i \in inner : \A j \in inner : j <= i)
         - (CHOOSE i \in inner : \A j \in inner : i <= j) + 1
RECURSIVE SumTrimmed(_)
SumTrimmed(ps) ==
    IF ps = <<>> THEN 0 ELSE TrimmedLen(Head(ps).body.s) + SumTrimmed(Tail(ps))
\* The users calculate_metrics has returned for.
ReturnedFor == {calls[k].user : k \in {i \in 1..Len(calls) : calls[i].how = "returned"}}

\* C14: once both fetches have returned and the run has ended, every valid
\* fetched user record is behind a user of the sorted result, whatever post
\* records were dropped, with post_count 0 and avg_chars 0 when no surviving
\* post is its own.
C14_UsersSurvivePostDrops ==
    (RunEnded /\ run_error # "OSError") =>
        \A i \in 1..Len(users_data) :
            WellFormedUser(users_data[i]) =>
                \E j \in 1..Len(sorted_users) :
                    /\ sorted_users[j].id = ExpectedId(users_data[i])
                    /\ ExpectedOwned(sorted_users[j].id) = <<>> =>
                          /\ sorted_users[j].post_count = 0
                          /\ sorted_users[j].avg_chars = PyFloat(0, 1)

\* C15: with at least one valid user record fetched, no malformed user or post
\* record aborts the run: once both fetches have returned, the run ends by
\* returning from rendering, never by raising.
C15_MalformedNeverAborts ==
    (/\ RunEnded /\ run_error # "OSError"
     /\ \E i \in 1..Len(users_data) : WellFormedUser(users_data[i])) =>
        stage = "done" /\ run_error = "none"

\* C16: after calculate_metrics has returned for a user, the user's posts are
\* exactly the posts whose user_id equals its id, in the order of posts, and
\* post_count is their number; so it is for every user of the sorted result
\* of run_analysis.
C16_OwnedPostsAndCount ==
    /\ \A k \in ReturnedFor :
         /\ users[k].posts = ExpectedOwned(users[k].id)
         /\ users[k].post_count = Len(ExpectedOwned(users[k].id))
    /\ Rendering =>
         \A j \in 1..Len(sorted_users) :
            /\ sorted_users[j].posts = ExpectedOwned(sorted_users[j].id)
            /\ sorted_users[j].post_count = Len(ExpectedOwned(sorted_users[j].id))
C16_Witness ==
    /\ stage = "done" /\ Len(sorted_users) = 2 /\ Len(posts) = 2
    /\ sorted_users[1].post_count = 2 /\ sorted_users[1].posts = posts
    /\ sorted_users[2].post_count = 0 /\ sorted_users[2].posts = <<>>

\* C17: after calculate_metrics has returned for a user, avg_chars is the sum
\* of the trimmed body lengths of its own posts divided by their number, and 0
\* when it owns none (bodies "ab" and " abcd\n" give 3.0).
C17_AverageTrimmedLength ==
    \A k \in ReturnedFor :
        LET owned == ExpectedOwned(users[k].id) IN
        users[k].avg_chars =
            IF owned = <<>> THEN PyFloat(0, 1)
            ELSE PyFloat(SumTrimmed(owned), Len(owned))
C17_Witness ==
    /\ stage = "metrics" /\ Len(calls) = 1 /\ calls[1].how = "returned"
    /\ Len(posts) = 2 /\ posts[1].body = BodyAb /\ posts[2].body = BodyAbcdPadded
    /\ users[1].post_count = 2
    /\ users[1].avg_chars = [num |-> 3, den |-> 1]

\* C18: calculate_metrics applied again to the same user with the same posts
\* changes nothing: after any number of calls the user is as the first call
\* left it, whatever its derived fields held before.
C18_Idempotent ==
    (stage = "metrics" /\ Len(calls) >= 1) => users = first
C18_Witness ==
    /\ stage = "metrics" /\ Len(calls) = 2 /\ calls[2].how = "returned"
    /\ users = first /\ users[1].post_count = 2

\* C19: sort_users_by_post_count returns the users of its argument ordered by
\* post_count, largest first; users with the same count keep their relative
\* input order; the argument itself is left unchanged.
C19_StableSortDescending ==
    stage = "sorted" =>
        /\ Len(sorted_users) = Len(arg)
        /\ \A i, j \in 1..Len(sorted_users) :
             i < j => sorted_users[i].post_count >= sorted_users[j].post_count
        /\ \A c \in {0, 3, 7} :
             SelectSeq(sorted_users, LAMBDA u : u.post_count = c)
               = SelectSeq(arg, LAMBDA u : u.post_count = c)
        /\ users = arg
C19_Witness ==
    /\ stage = "sorted" /\ Len(arg) = 3
    /\ arg[1].post_count = 3 /\ arg[2].post_count = 7 /\ arg[3].post_count = 3
    /\ arg[1].id = 1 /\ arg[2].id = 2 /\ arg[3].id = 3
    /\ sorted_users = <<arg[2], arg[1], arg[3]>>

\* C20: validate_users raises (ValueError) exactly when the list is empty; a
\* non-empty list passes, with a warning when some post_count is 0.
C20_RejectsOnlyEmpty ==
    stage = "validated" =>
        /\ run_error = "ValueError" <=> arg = <<>>
        /\ run_error \in {"none", "ValueError"}
        /\ (arg # <<>> /\ \A i \in 1..Len(arg) : arg[i].post_count = 0) =>
              (run_error = "none" /\ warned)
C20_Witness ==
    /\ stage = "validated" /\ Len(arg) = 2
    /\ \A i \in 1..Len(arg) : arg[i].post_count = 0
    /\ run_error = "none" /\ warned

(***************************************************************************)
(* Vocabulary of the properties of main and of the reports.                *)
(***************************************************************************)
IsPrefix(a, b) == Len(a) <= Len(b) /\ a = SubSeq(b, 1, Len(a))
\* The stages of a complete run over n users, in the order of main.py.
StagesOfRun(n) ==
    <<Ev("fetch_users"), Ev("fetch_posts"), Ev("process_users"), Ev("process_posts")>>
    \o [i \in 1..n |-> [ev |-> "aggregate", n |-> i]]
    \o <<Ev("sort"), Ev("render_pdf"), Ev("render_excel")>>
MainEnded == stage \in {"main_returned", "main_raised"}
RunRaised == stage \in {"failed", "main_raised"}

\* C21: with no valid user at the rendering step of run_analysis, nothing has
\* been written or sent when the step starts, and the step ends the run with
\* ValueError (never APIError) with no artifact written and no notification
\* attempted; generate_pdf_report and generate_reports called with an empty
\* list raise ValueError and write nothing.
C21_EmptyResultError ==
    /\ (stage = "render_pdf" /\ users = <<>>) =>
          (sorted_users = <<>> /\ artifacts = <<>> /\ emails = <<>>)
    /\ (Ev("render_pdf") \in Range(trail) /\ users = <<>>) =>
          /\ RunRaised /\ run_error = "ValueError"
          /\ artifacts = <<>> /\ emails = <<>>
    /\ (stage \in {"report_raised", "report_returned"} /\ arg = <<>>) =>
          (stage = "report_raised" /\ run_error = "ValueError" /\ artifacts = <<>>)
    /\ stage = "report_raised" => arg = <<>>
C21_Witness ==
    /\ stage = "main_raised" /\ run_error = "ValueError"
    /\ Len(users_data) = 2 /\ users = <<>>
    /\ email_enabled /\ artifacts = <<>> /\ emails = <<>>

\* C22: when calculate_metrics raises for a user, the run ends with a
\* ProcessingError whose message names that user's id; no later user is
\* aggregated, nothing is sorted or rendered and no notification is sent.
C22_ProcessingErrorEndsRun ==
    (\E k \in 1..Len(calls) : calls[k].how = "ProcessingError") =>
        /\ calls[Len(calls)].how = "ProcessingError"
        /\ \A k \in 1..(Len(calls) - 1) : calls[k].how = "returned"
        /\ RunRaised /\ run_error = "ProcessingError"
        /\ error_id = users[calls[Len(calls)].user].id
        /\ trail[Len(trail)] = [ev |-> "aggregate", n |-> calls[Len(calls)].user]
        /\ \A k \in 1..Len(calls) : calls[k].user = k
        /\ sorted_users = <<>> /\ artifacts = <<>> /\ emails = <<>>
C22_Witness ==
    /\ stage = "main_raised" /\ run_error = "ProcessingError"
    /\ Len(users) = 2 /\ Len(calls) = 1 /\ error_id = users[1].id
    /\ users[2].post_count = 0 /\ email_enabled

\* C23: the stages of a run occur in the order fetch users, fetch posts,
\* normalize users, normalize posts, aggregate user 1..n, sort, render PDF,
\* render Excel (then the notification); none is entered twice, a
\* normalization has returned before the next stage is entered, and a run that
\* returns has gone through all of them.
C23_StrictlyLinear ==
    /\ IsPrefix(trail, StagesOfRun(Len(users)) \o <<Ev("notify")>>)
    /\ stage \in {"process_posts", "aggregate", "render_pdf", "render_excel", "done"} =>
          ppc = "returned"
    /\ stage \in {"aggregate", "render_pdf", "render_excel", "done"} =>
          qpc = "returned"
    /\ stage = "done" => trail = StagesOfRun(Len(users))
C23_Witness ==
    /\ stage = "main_returned" /\ Len(users) = 2
    /\ trail = StagesOfRun(2) \o <<Ev("notify")>>

\* C24: the notification is attempted at most once, only with EMAIL_ENABLED
\* set and only after run_analysis returned both report paths; whatever
\* send_report_email returns, main completes without raising.
C24_NotifyOnceNeverFatal ==
    /\ Len(emails) <= 1
    /\ emails # <<>> =>
          /\ email_enabled
          /\ artifacts = <<"pdf", "excel">>
          /\ run_error = "none"
          /\ stage = "main_returned"
          /\ trail = StagesOfRun(Len(users)) \o <<Ev("notify")>>
    /\ (stage = "main_returned" /\ email_enabled) => Len(emails) = 1
C24_Witness ==
    /\ stage = "main_returned" /\ emails = <<FALSE>> /\ run_error = "none"

(***************************************************************************)
(* Vocabulary of the cache's properties.                                   *)
(***************************************************************************)
\* What get should hand back for a key, given what the backend held.
ExpectedGet(entry) ==
    IF entry.present /\ entry.raw # <<>> /\ ~LoadsRaises(entry.raw)
      THEN Loads(entry.raw) ELSE PyNull

\* C25: no RedisCache operation raises to its caller: get returns the decoded
\* stored value, or None when the key is absent or the backend or the
\* decoding failed; set returns False when storing failed; a failed operation
\* leaves the backend's contents as they were.
C25_CacheNeverRaises ==
    cache_last.op # "none" =>
        /\ cache_last.how = "returned"
        /\ cache_last.op = "get" =>
              (store = store_before
               /\ (cache_last.ok => cache_last.val = ExpectedGet(store_before[cache_last.key]))
               /\ (~cache_last.ok => cache_last.val = PyNull))
        /\ (cache_last.op = "set" /\ ~cache_last.ok) => store = store_before

C30_ZeroRetriesSilent ==
    max_retries <= 0 =>
        /\ hist = <<>> /\ sleeps = <<>>
        /\ Done =>
             /\ outcome = "returned"
             /\ retval = IF caller = "get" THEN PyNone ELSE Json(<<>>)
C30_Witness ==
    /\ max_retries <= 0 /\ caller = "get_paginated" /\ Done
    /\ outcome = "returned" /\ retval = Json(<<>>) /\ hist = <<>>

(***************************************************************************)
(* Vocabulary of the remaining properties of the helpers and of the        *)
(* aggregation.                                                            *)
(***************************************************************************)
RECURSIVE SumPostCounts(_)
SumPostCounts(us) ==
    IF us = <<>> THEN 0 ELSE Head(us).post_count + SumPostCounts(Tail(us))
\* Every user of self.users has been through calculate_metrics.
AllAggregated ==
    /\ stage \in {"aggregate", "render_pdf", "render_excel", "done"}
    /\ uidx > Len(users)
DistinctIds == \A i, j \in 1..Len(users) : i # j => users[i].id # users[j].id
\* Positions in posts of the posts some user of self.users owns.
ClaimedPosts ==
    {p \in 1..Len(posts) : \E k \in 1..Len(users) : posts[p].user_id = PyInt(users[k].id)}

\* C27: filter_active_users(users, min_posts) returns exactly the users whose
\* post_count is at least min_posts, in input order, for every min_posts, and
\* leaves its argument as it was.
C27_FilterAtLeastMin ==
    stage = "filtered" =>
        /\ active_users = SelectSeq(arg, LAMBDA u : u.post_count >= min_posts)
        /\ users = arg

\* C28: once every user of a run has been aggregated and the users' ids are
\* pairwise distinct, a post is in the posts list of a user only when its
\* user_id is that user's id, hence of at most one user; the post_counts add
\* up to the number of posts whose user_id is some user's id; posts of nobody
\* are counted nowhere and have raised nothing.
C28_PostsPartitioned ==
    (AllAggregated /\ DistinctIds) =>
        /\ \A k \in 1..Len(users) : \A q \in 1..Len(users[k].posts) :
              users[k].posts[q].user_id = PyInt(users[k].id)
        /\ \A p \in 1..Len(posts) :
              Cardinality({k \in 1..Len(users) :
                              \E q \in 1..Len(users[k].posts) :
                                  users[k].posts[q] = posts[p]}) <= 1
        /\ SumPostCounts(users) = Cardinality(ClaimedPosts)
        /\ run_error = "none"
C28_Witness ==
    /\ stage = "done" /\ Len(users) = 2 /\ users[1].id # users[2].id
    /\ Len(posts) = 2 /\ posts[1].user_id = PyInt(2) /\ posts[2].user_id.t = "str"
    /\ SumPostCounts(users) = 1 /\ run_error = "none"

\* C29: a calculate_metrics call that raises ProcessingError has already
\* overwritten the user's posts and post_count with the owned posts and their
\* number, and leaves avg_chars at the value it had before the call.
C29_NotAtomicOnError ==
    [][(Len(calls') = Len(calls) + 1 /\ calls'[Len(calls')].how = "ProcessingError") =>
          LET k == calls'[Len(calls')].user IN
          /\ users'[k].posts = ExpectedOwned(users[k].id)
          /\ users'[k].post_count = Len(ExpectedOwned(users[k].id))
          /\ users'[k].avg_chars = users[k].avg_chars]_vars
C29_Witness ==
    /\ stage = "metrics" /\ Len(calls) = 1 /\ calls[1].how = "ProcessingError"
    /\ users[1].post_count = 1 /\ Len(users[1].posts) = 1
    /\ users[1].avg_chars = [num |-> 7, den |-> 2]

====
